---- MODULE Spec2Model ----
\* fseventwatcher: a supervisor event listener that restarts processes when
\* file system events occurred between two TICK notifications.
\* The model follows src/fseventwatcher.py: the PollableFileSystemEventHandler
\* flag and its lock, the watchdog observer threads calling on_moved /
\* on_created / on_deleted / on_modified, and the FSEventWatcher.runforever
\* loop with _restart_processes, each source line that touches shared state
\* being one step.
EXTENDS Integers, Sequences, FiniteSets, TLC

\* ---------------------------------------------------------------- bounds
\* Number of watchdog observer threads delivering events to the handler.
NumWatchers == 2
\* Longest process list getAllProcessInfo returns.
MaxLive == 2

\* ------------------------------------------------------------- universe
\* The thread running runforever; the observer threads are 1..NumWatchers.
MainThread == 0
Watchers == 1..NumWatchers
Threads == {MainThread} \cup Watchers

\* The four event kinds of watchdog's FileSystemEventHandler.
Kinds == {"moved", "created", "deleted", "modified"}

\* The watch flags the handler is constructed with (watch_moved,
\* watch_created, watch_deleted, watch_modified): here --watch-modified alone,
\* so that events of a watched kind and of unwatched kinds both occur.
WatchModified ==
    [moved |-> FALSE, created |-> FALSE, deleted |-> FALSE, modified |-> TRUE]

\* Event names supervisor sends in the header of a notification, as character
\* sequences so that startswith is computed and not assumed.
TICK_60 == <<"T", "I", "C", "K", "_", "6", "0">>
PROCESS_STATE == <<"P", "R", "O", "C", "E", "S", "S", "_", "S", "T", "A", "T", "E">>
TIC == <<"T", "I", "C">>
EventNames == {TICK_60, PROCESS_STATE, TIC}
NoHeaders == <<>>

\* Processes supervisor may report: group, name.
LiveProcesses ==
    { [group |-> "web", name |-> "web"],
      [group |-> "g", name |-> "web"],
      [group |-> "db", name |-> "db"] }
\* ProcessStates of supervisor.states, by name.
ProcessStateNames == {"RUNNING", "STOPPED"}
RUNNING == "RUNNING"
ProcessInfos == [group : {p.group : p \in LiveProcesses},
                 name : {p.name : p \in LiveProcesses},
                 state : ProcessStateNames]

\* Lists getAllProcessInfo can return: at most MaxLive entries, no process
\* (group, name) reported twice.
Distinct(s) ==
    \A i, j \in 1..Len(s) :
        i # j => ~(s[i].group = s[j].group /\ s[i].name = s[j].name)
LiveLists ==
    UNION { { s \in [1..n -> ProcessInfos] :
                /\ \A i \in 1..n : [group |-> s[i].group, name |-> s[i].name] \in LiveProcesses
                /\ Distinct(s) } : n \in 0..MaxLive }

\* Values of -p/--programs: names and namespecs.
ProgramChoices == { {}, {"web"}, {"g:web", "worker"} }

\* Outcomes of one XML-RPC call: it returns, raises xmlrpclib.Fault, or raises
\* another exception (ProtocolError, socket.error).
RpcOutcomes == {"ok", "fault", "error"}

\* The handler and the watcher constructed by a caller other than main, as
\* test_fseventwatcher.py does: no command line.
NoArgs == <<>>

VARIABLES
    watch,              \* handler.watch_moved/created/deleted/modified
    activity_occurred,  \* handler._activity_occurred
    lock,               \* handler._lock: the set of threads holding it
    programs,           \* FSEventWatcher.programs
    any_program,        \* FSEventWatcher.any_program
    pc,                 \* each thread's position in the code
    res,                \* the local res of mark/unmark_activity_occurred per thread
    headers,            \* eventname of the notification being processed
    specs,              \* _restart_processes: the fetched list
    idx,                \* _restart_processes: position of the for loop in specs
    waiting,            \* _restart_processes: the local set waiting
    calls,              \* XML-RPC calls made since the last handshake token
    out,                \* lines written to stdout/stderr since the last handshake token, with it
    unmarked,           \* results of unmark_activity_occurred for this notification
    dispatches,         \* _restart_processes invocations for this notification
    acks,               \* childutils.listener.ok calls for this notification
    pending,            \* history: who completed a mark since the last unmark
    args                \* main: the parsed command line and environment

vars == <<watch, activity_occurred, lock, programs, any_program, pc, res, headers,
          specs, idx, waiting, calls, out, unmarked, dispatches, acks,
          pending, args>>

handler_vars == <<watch, activity_occurred, lock, res>>
watcher_vars == <<programs, any_program, args>>
dispatch_vars == <<specs, idx, waiting>>
loop_vars == <<headers, unmarked, dispatches, acks>>
history_vars == <<pending>>

\* ------------------------------------------------------------- helpers
\* supervisor.options.make_namespec as called on line 82: the bare name when
\* group and name are equal, "group:name" otherwise.
make_namespec(group, name) ==
    IF group = name THEN name ELSE group \o ":" \o name

\* str.startswith
startswith(s, prefix) ==
    /\ Len(s) >= Len(prefix)
    /\ SubSeq(s, 1, Len(prefix)) = prefix

\* A prefix test one character short.
IsTickLoose(eventname) == startswith(eventname, <<"T", "I", "C">>)
\* The first operand of the condition on line 110.
IsTick(eventname) == startswith(eventname, <<"T", "I", "C", "K">>)

\* on_created testing the flag of on_moved.
WatchedCopied(mask, kind) ==
    CASE kind = "moved" -> mask.moved
      [] kind = "created" -> mask.moved
      [] kind = "deleted" -> mask.deleted
      [] kind = "modified" -> mask.modified
\* Which on_* method reads which watch flag (lines 41, 46, 51, 56).
Watched(mask, kind) ==
    CASE kind = "moved" -> mask.moved
      [] kind = "created" -> mask.created
      [] kind = "deleted" -> mask.deleted
      [] kind = "modified" -> mask.modified

\* A lock that excludes nobody.
CanAcquireUnguarded(l) == TRUE
\* threading.Lock.acquire (lines 28 and 34) succeeds only on a free lock.
CanAcquire(l) == l = {}

\* mark_activity_occurred storing False.
MarkValueCleared == FALSE
\* The value mark_activity_occurred stores (line 30).
MarkValue == TRUE

\* unmark_activity_occurred storing True.
UnmarkValueKept == TRUE
\* The value unmark_activity_occurred stores (line 36).
UnmarkValue == FALSE

\* A with block that is left without releasing.
releaseSkipped(l, t) == l
\* Leaving the with self._lock block (lines 31, 37) releases the lock.
release(l, t) == l \ {t}

\* A loop that restarts on every tick.
RestartAlways(unmark_result) == TRUE
\* The second operand of the condition on lines 110-111: the value
\* unmark_activity_occurred returned.
RestartWanted(unmark_result) == unmark_result

\* An except branch that only reports.
FetchFailureDropped == "ok"
\* Where the except branch of lines 75-77 continues after its report: the
\* call of mark_activity_occurred on line 77.
FetchFailureNext == "mark_acquire"

\* A test that forgets the namespec.
IsCandidateByName(any, name, namespec, wait) ==
    any \/ name \in wait
\* The condition of line 83.
IsCandidate(any, name, namespec, wait) ==
    any \/ name \in wait \/ namespec \in wait

\* A restart whatever the state.
IsRunningAny(state) == TRUE
\* The condition of line 84: an identity test against the small integer
\* ProcessStates.RUNNING, which CPython interns, so it decides as equality.
IsRunning(state) == state = RUNNING

\* One line written to a stream.
Line(stream, msg, ids) == [stream |-> stream, msg |-> msg, ids |-> ids]
Call(method, namespec) == [method |-> method, namespec |-> namespec]

Alive == pc[MainThread] \notin {"start", "crashed"}

Goto(t, label) == pc' = [pc EXCEPT ![t] = label]

\* ---------------------------------------------------------------- Init
Init ==
    /\ watch = WatchModified
    /\ activity_occurred = FALSE
    /\ lock = {}
    /\ programs \in ProgramChoices
    /\ any_program \in BOOLEAN
    /\ programs # {} \/ any_program     \* line 145
    /\ pc = [t \in Threads |-> IF t = MainThread THEN "start" ELSE "idle"]
    /\ res = [t \in Threads |-> FALSE]
    /\ headers = NoHeaders
    /\ specs = <<>>
    /\ idx = 1
    /\ waiting = {}
    /\ calls = <<>>
    /\ out = <<>>
    /\ unmarked = <<>>
    /\ dispatches = 0
    /\ acks = 0
    /\ pending = {}
    /\ args = NoArgs

\* ------------------------------------------- PollableFileSystemEventHandler
\* on_moved / on_created / on_deleted / on_modified on an observer thread.
OnEvent(t, kind) ==
    /\ t \in Watchers
    /\ Alive
    /\ pc[t] = "idle"
    /\ IF Watched(watch, kind)
         THEN Goto(t, "mark_acquire")
         ELSE UNCHANGED pc
    /\ UNCHANGED <<handler_vars, watcher_vars, dispatch_vars, loop_vars,
                   history_vars, calls, out>>

\* mark_activity_occurred, line 28: with self._lock
MarkAcquire(t) ==
    /\ Alive
    /\ pc[t] = "mark_acquire"
    /\ CanAcquire(lock)
    /\ lock' = lock \cup {t}
    /\ Goto(t, "mark_read")
    /\ UNCHANGED <<watch, activity_occurred, res, watcher_vars, dispatch_vars,
                   loop_vars, history_vars, calls, out>>

\* line 29: res = self._activity_occurred
MarkRead(t) ==
    /\ Alive
    /\ pc[t] = "mark_read"
    /\ res' = [res EXCEPT ![t] = activity_occurred]
    /\ Goto(t, "mark_write")
    /\ UNCHANGED <<watch, activity_occurred, lock, watcher_vars, dispatch_vars,
                   loop_vars, history_vars, calls, out>>

\* line 30: self._activity_occurred = True
MarkWrite(t) ==
    /\ Alive
    /\ pc[t] = "mark_write"
    /\ activity_occurred' = MarkValue
    /\ pending' = pending \cup {IF t = MainThread THEN "remark" ELSE "event"}
    /\ Goto(t, "mark_return")
    /\ UNCHANGED <<watch, lock, res, watcher_vars, dispatch_vars, loop_vars,
                   calls, out>>

\* line 31: return res, leaving the with block. The caller on the main thread
\* is line 77, after which _restart_processes returns to line 113.
MarkReturn(t) ==
    /\ Alive
    /\ pc[t] = "mark_return"
    /\ lock' = release(lock, t)
    /\ res' = [res EXCEPT ![t] = FALSE]
    /\ Goto(t, IF t = MainThread THEN "ok" ELSE "idle")
    /\ UNCHANGED <<watch, activity_occurred, watcher_vars, dispatch_vars,
                   loop_vars, history_vars, calls, out>>

\* unmark_activity_occurred, line 34: with self._lock
UnmarkAcquire(t) ==
    /\ pc[t] = "unmark_acquire"
    /\ CanAcquire(lock)
    /\ lock' = lock \cup {t}
    /\ Goto(t, "unmark_read")
    /\ UNCHANGED <<watch, activity_occurred, res, watcher_vars, dispatch_vars,
                   loop_vars, history_vars, calls, out>>

\* line 35: res = self._activity_occurred
UnmarkRead(t) ==
    /\ pc[t] = "unmark_read"
    /\ res' = [res EXCEPT ![t] = activity_occurred]
    /\ Goto(t, "unmark_write")
    /\ UNCHANGED <<watch, activity_occurred, lock, watcher_vars, dispatch_vars,
                   loop_vars, history_vars, calls, out>>

\* line 36: self._activity_occurred = False
UnmarkWrite(t) ==
    /\ pc[t] = "unmark_write"
    /\ activity_occurred' = UnmarkValue
    /\ pending' = {}
    /\ Goto(t, "unmark_return")
    /\ UNCHANGED <<watch, lock, res, watcher_vars, dispatch_vars, loop_vars,
                   calls, out>>

\* line 37: return res, leaving the with block; back on lines 110-113 the
\* result decides between _restart_processes and listener.ok.
UnmarkReturn(t) ==
    /\ pc[t] = "unmark_return"
    /\ lock' = release(lock, t)
    /\ unmarked' = Append(unmarked, res[t])
    /\ IF RestartWanted(res[t])
         THEN Goto(t, "getinfo")
         ELSE Goto(t, "ok")
    /\ res' = [res EXCEPT ![t] = FALSE]
    /\ UNCHANGED <<watch, activity_occurred, watcher_vars, dispatch_vars,
                   headers, dispatches, acks, history_vars, calls, out>>

\* ------------------------------------------------------ FSEventWatcher
\* runforever, lines 104-107: the observer is scheduled and started.
StartObserver ==
    /\ pc[MainThread] = "start"
    /\ Goto(MainThread, "wait")
    /\ UNCHANGED <<handler_vars, watcher_vars, dispatch_vars, loop_vars,
                   history_vars, calls, out>>

\* line 109: childutils.listener.wait writes READY and reads the next
\* notification's headers.
Wait(eventname) ==
    /\ pc[MainThread] = "wait"
    /\ headers' = eventname
    /\ out' = <<Line("stdout", "READY", {})>>
    /\ calls' = <<>>
    /\ unmarked' = <<>>
    /\ dispatches' = 0
    /\ acks' = 0
    /\ Goto(MainThread, "check")
    /\ UNCHANGED <<handler_vars, watcher_vars, dispatch_vars, history_vars>>

\* line 110: headers["eventname"].startswith("TICK") and ...
CheckEvent ==
    /\ pc[MainThread] = "check"
    /\ IF IsTick(headers)
         THEN Goto(MainThread, "unmark_acquire")
         ELSE Goto(MainThread, "ok")
    /\ UNCHANGED <<handler_vars, watcher_vars, dispatch_vars, loop_vars,
                   history_vars, calls, out>>

\* lines 72-79: _restart_processes is entered; getAllProcessInfo and its
\* except/else.
GetAllProcessInfo(outcome, list) ==
    /\ pc[MainThread] = "getinfo"
    /\ dispatches' = dispatches + 1
    /\ calls' = Append(calls, Call("getAllProcessInfo", ""))
    /\ IF outcome = "ok"
         THEN /\ specs' = list
              /\ idx' = 1
              /\ waiting' = programs
              /\ Goto(MainThread, "loop")
              /\ UNCHANGED out
         ELSE /\ out' = Append(out, Line("stderr", "Unable to get process info", {}))
              /\ Goto(MainThread, FetchFailureNext)
              /\ UNCHANGED dispatch_vars
    /\ UNCHANGED <<handler_vars, watcher_vars, headers, unmarked, acks, history_vars>>

\* lines 80-85 and 96-99: one iteration of the for loop up to the stop call,
\* or the whole iteration when the process is not restarted.
LoopStep ==
    /\ pc[MainThread] = "loop"
    /\ idx <= Len(specs)
    /\ LET spec == specs[idx]
           name == spec.name
           namespec == make_namespec(spec.group, name)
       IN IF IsCandidate(any_program, name, namespec, waiting)
            THEN IF IsRunning(spec.state)
                   THEN /\ out' = Append(out, Line("stderr", "Restarting process", {namespec}))
                        /\ Goto(MainThread, "stop")
                        /\ UNCHANGED <<idx, waiting>>
                   ELSE /\ out' = Append(out, Line("stdout", "Process is not in RUNNING state", {namespec}))
                        /\ waiting' = waiting \ {name, namespec}
                        /\ idx' = idx + 1
                        /\ UNCHANGED pc
            ELSE /\ idx' = idx + 1
                 /\ UNCHANGED <<pc, waiting, out>>
    /\ UNCHANGED <<handler_vars, watcher_vars, specs, loop_vars, history_vars, calls>>

\* lines 86-89: stopProcess; only xmlrpclib.Fault is caught.
StopProcess(outcome) ==
    /\ pc[MainThread] = "stop"
    /\ LET namespec == make_namespec(specs[idx].group, specs[idx].name)
       IN /\ calls' = Append(calls, Call("stopProcess", namespec))
          /\ CASE outcome = "ok" ->
                    /\ Goto(MainThread, "start_process")
                    /\ UNCHANGED out
               [] outcome = "fault" ->
                    /\ out' = Append(out, Line("stderr", "Unable to stop process", {namespec}))
                    /\ Goto(MainThread, "start_process")
               [] outcome = "error" ->
                    /\ Goto(MainThread, "crashed")
                    /\ UNCHANGED out
    /\ UNCHANGED <<handler_vars, watcher_vars, dispatch_vars, loop_vars, history_vars>>

\* lines 90-95 and 98-99: startProcess, its report, and the two discards.
StartProcess(outcome) ==
    /\ pc[MainThread] = "start_process"
    /\ LET name == specs[idx].name
           namespec == make_namespec(specs[idx].group, name)
       IN /\ calls' = Append(calls, Call("startProcess", namespec))
          /\ CASE outcome = "ok" ->
                    /\ out' = Append(out, Line("stderr", "Restarted process", {namespec}))
                    /\ waiting' = waiting \ {name, namespec}
                    /\ idx' = idx + 1
                    /\ Goto(MainThread, "loop")
               [] outcome = "fault" ->
                    /\ out' = Append(out, Line("stderr", "Unable to start process", {namespec}))
                    /\ waiting' = waiting \ {name, namespec}
                    /\ idx' = idx + 1
                    /\ Goto(MainThread, "loop")
               [] outcome = "error" ->
                    /\ Goto(MainThread, "crashed")
                    /\ UNCHANGED <<out, waiting, idx>>
    /\ UNCHANGED <<handler_vars, watcher_vars, specs, loop_vars, history_vars>>

\* lines 100-101: after the loop, the programs that were not found.
ReportNotFound ==
    /\ pc[MainThread] = "loop"
    /\ idx > Len(specs)
    /\ IF waiting # {}
         THEN out' = Append(out, Line("stderr", "Programs specified could not be found", waiting))
         ELSE UNCHANGED out
    /\ Goto(MainThread, "ok")
    /\ UNCHANGED <<handler_vars, watcher_vars, dispatch_vars, loop_vars,
                   history_vars, calls>>

\* line 113: childutils.listener.ok writes the RESULT token. The locals of the
\* _restart_processes call that has returned are gone, and calls and out start
\* again from the token.
Ok ==
    /\ pc[MainThread] = "ok"
    /\ out' = <<Line("stdout", "RESULT 2 OK", {})>>
    /\ calls' = <<>>
    /\ acks' = acks + 1
    /\ specs' = <<>>
    /\ idx' = 1
    /\ waiting' = {}
    /\ Goto(MainThread, "wait")
    /\ UNCHANGED <<handler_vars, watcher_vars, headers, unmarked,
                   dispatches, history_vars>>

Next ==
    \/ \E t \in Watchers, kind \in Kinds : OnEvent(t, kind)
    \/ \E t \in Threads : MarkAcquire(t)
    \/ \E t \in Threads : MarkRead(t)
    \/ \E t \in Threads : MarkWrite(t)
    \/ \E t \in Threads : MarkReturn(t)
    \/ UnmarkAcquire(MainThread)
    \/ UnmarkRead(MainThread)
    \/ UnmarkWrite(MainThread)
    \/ UnmarkReturn(MainThread)
    \/ StartObserver
    \/ \E eventname \in EventNames : Wait(eventname)
    \/ CheckEvent
    \/ \E outcome \in RpcOutcomes, list \in LiveLists : GetAllProcessInfo(outcome, list)
    \/ LoopStep
    \/ \E outcome \in RpcOutcomes : StopProcess(outcome)
    \/ \E outcome \in RpcOutcomes : StartProcess(outcome)
    \/ ReportNotFound
    \/ Ok

Spec == Init /\ [][Next]_vars

\* ------------------------------------------------- the handler, every mask
\* Every combination of the four watch flags the handler can be constructed
\* with.
WatchMasks ==
    [moved : BOOLEAN, created : BOOLEAN, deleted : BOOLEAN, modified : BOOLEAN]

\* The handler under every mask, with -a and a supervisor that reports no
\* process: what a dispatch restarts does not bear on the handler.
MaskInit ==
    /\ watch \in WatchMasks
    /\ activity_occurred = FALSE
    /\ lock = {}
    /\ programs = {}
    /\ any_program = TRUE
    /\ pc = [t \in Threads |-> IF t = MainThread THEN "start" ELSE "idle"]
    /\ res = [t \in Threads |-> FALSE]
    /\ headers = NoHeaders
    /\ specs = <<>>
    /\ idx = 1
    /\ waiting = {}
    /\ calls = <<>>
    /\ out = <<>>
    /\ unmarked = <<>>
    /\ dispatches = 0
    /\ acks = 0
    /\ pending = {}
    /\ args = NoArgs

MaskNext ==
    \/ \E t \in Watchers, kind \in Kinds : OnEvent(t, kind)
    \/ \E t \in Threads : MarkAcquire(t)
    \/ \E t \in Threads : MarkRead(t)
    \/ \E t \in Threads : MarkWrite(t)
    \/ \E t \in Threads : MarkReturn(t)
    \/ UnmarkAcquire(MainThread)
    \/ UnmarkRead(MainThread)
    \/ UnmarkWrite(MainThread)
    \/ UnmarkReturn(MainThread)
    \/ StartObserver
    \/ \E eventname \in EventNames : Wait(eventname)
    \/ CheckEvent
    \/ \E outcome \in RpcOutcomes : GetAllProcessInfo(outcome, <<>>)
    \/ ReportNotFound
    \/ Ok

MaskSpec == MaskInit /\ [][MaskNext]_vars

\* ------------------------------------------------------------------- main
\* What main is started with: -p, -a, whether every -f path exists, the
\* --watch-* flags, --watch-any, whether --dither is given, and whether the
\* environment has SUPERVISOR_SERVER_URL.
CommandLines ==
    [programs : ProgramChoices, any_program : BOOLEAN, paths_exist : BOOLEAN,
     watch : WatchMasks, watch_any : BOOLEAN, dither : BOOLEAN,
     server_url : BOOLEAN]

\* The process at the entry of main: nothing constructed yet.
StartupInit ==
    /\ args \in CommandLines
    /\ watch = [moved |-> FALSE, created |-> FALSE, deleted |-> FALSE, modified |-> FALSE]
    /\ activity_occurred = FALSE
    /\ lock = {}
    /\ programs = {}
    /\ any_program = FALSE
    /\ pc = [t \in Threads |-> IF t = MainThread THEN "main" ELSE "idle"]
    /\ res = [t \in Threads |-> FALSE]
    /\ headers = NoHeaders
    /\ specs = <<>>
    /\ idx = 1
    /\ waiting = {}
    /\ calls = <<>>
    /\ out = <<>>
    /\ unmarked = <<>>
    /\ dispatches = 0
    /\ acks = 0
    /\ pending = {}

\* parser.error: the message on stderr, exit status 2.
ParserError(msg) ==
    /\ out' = Append(out, Line("stderr", msg, {}))
    /\ Goto(MainThread, "usage_error")

\* line 144: parse_args. The parser defines no --dither (line 143 is a
\* comment), so a command line that gives it is rejected.
ParseArgs ==
    /\ pc[MainThread] = "main"
    /\ IF args.dither
         THEN ParserError("unrecognized arguments")
         ELSE Goto(MainThread, "check_programs") /\ UNCHANGED out
    /\ UNCHANGED <<handler_vars, watcher_vars, dispatch_vars, loop_vars,
                   history_vars, calls>>

\* lines 145-146
CheckPrograms ==
    /\ pc[MainThread] = "check_programs"
    /\ IF ~(args.programs # {} \/ args.any_program)
         THEN ParserError("Must specify either -p, --programs or -a, --any-program.")
         ELSE Goto(MainThread, "check_paths") /\ UNCHANGED out
    /\ UNCHANGED <<handler_vars, watcher_vars, dispatch_vars, loop_vars,
                   history_vars, calls>>

\* lines 147-149
CheckPaths ==
    /\ pc[MainThread] = "check_paths"
    /\ IF ~args.paths_exist
         THEN ParserError("Path does not exits.")
         ELSE Goto(MainThread, "check_events") /\ UNCHANGED out
    /\ UNCHANGED <<handler_vars, watcher_vars, dispatch_vars, loop_vars,
                   history_vars, calls>>

\* lines 150-151
CheckEvents ==
    /\ pc[MainThread] = "check_events"
    /\ IF ~(\/ args.watch.moved \/ args.watch.created \/ args.watch.deleted
            \/ args.watch.modified \/ args.watch_any)
         THEN ParserError("Must specify which event/s to watch.")
         ELSE Goto(MainThread, "check_only") /\ UNCHANGED out
    /\ UNCHANGED <<handler_vars, watcher_vars, dispatch_vars, loop_vars,
                   history_vars, calls>>

\* line 152: args.files_only. The parser defines no --files-only (line 140
\* is a comment), so the Namespace has no such attribute: the read raises
\* AttributeError, which nothing catches. Lines 154-172 are not reached.
CheckOnly ==
    /\ pc[MainThread] = "check_only"
    /\ out' = Append(out, Line("stderr", "AttributeError", {}))
    /\ Goto(MainThread, "crashed")
    /\ UNCHANGED <<handler_vars, watcher_vars, dispatch_vars, loop_vars,
                   history_vars, calls>>

StartupNext ==
    \/ ParseArgs
    \/ CheckPrograms
    \/ CheckPaths
    \/ CheckEvents
    \/ CheckOnly

StartupSpec == StartupInit /\ [][StartupNext]_vars

\* ============================================================ properties
\* Positions of a thread between acquiring and releasing the lock.
InCritical(t) ==
    pc[t] \in {"mark_read", "mark_write", "mark_return",
               "unmark_read", "unmark_write", "unmark_return"}

\* A notification has been read and it is a TICK / it is not a TICK.
TickEvents == {TICK_60}
NonTickEvents == {PROCESS_STATE, TIC}
ProcessingTick == headers \in TickEvents
ProcessingNonTick == headers \in NonTickEvents

\* The loop reads a TICK notification.
TickRead == \E eventname \in TickEvents : Wait(eventname)
\* A watched event has completed its mark and no unmark has run since.
EventMarked == "event" \in pending
\* The loop is about to call getAllProcessInfo: a restart dispatch begins.
DispatchBegins == pc[MainThread] = "getinfo"

\* C1: no qualifying event is lost. As long as TICK notifications keep being
\* read, every event of a watched kind whose mark has completed (while the loop
\* waits or while a restart dispatch is running) is followed by the beginning
\* of a restart dispatch: the unmark of the next TICK returns true.
C1_NoEventLost ==
    ([]<><<TickRead>>_vars) => (EventMarked ~> DispatchBegins)

\* A watched event completed its mark and the unmark of the next tick
\* has read it.
C1_Witness ==
    /\ pc[MainThread] = "unmark_write"
    /\ pending = {"event"}
    /\ res[MainThread] = TRUE

\* C2: unmark_activity_occurred returns true exactly when at least one mark
\* completed since the previous unmark (false on a fresh flag), and leaves the
\* flag false.
C2_ConsumeReturnsMarked ==
    /\ pc[MainThread] = "unmark_write" => (res[MainThread] <=> pending # {})
    /\ pc[MainThread] = "unmark_return" => activity_occurred = FALSE

\* An unmark that found the flag set has cleared it.
C2_Witness ==
    /\ pc[MainThread] = "unmark_return"
    /\ res[MainThread] = TRUE
    /\ activity_occurred = FALSE

\* C3: mark_activity_occurred returns the value the flag had before the call
\* (false for the first mark after construction or after an unmark, true for
\* every further mark) and leaves the flag true.
C3_MarkReturnsPrevious ==
    \A t \in Threads :
        /\ pc[t] = "mark_write" => (res[t] <=> pending # {})
        /\ pc[t] = "mark_return" => activity_occurred = TRUE

\* A second mark without an unmark in between returns true.
C3_Witness ==
    \E t \in Threads :
        /\ pc[t] = "mark_return"
        /\ res[t] = TRUE
        /\ Cardinality(pending) = 2

\* C4: mark and unmark are serialized by the lock. At most one thread is between
\* its acquire and its release, it is the holder of the lock, and the value an
\* operation has read is still the value of the flag when it writes.
C4_Linearizable ==
    /\ Cardinality({t \in Threads : InCritical(t)}) <= 1
    /\ \A t \in Threads : InCritical(t) => lock = {t}
    /\ \A t \in Threads :
          pc[t] \in {"mark_write", "unmark_write"} => res[t] = activity_occurred

\* Two observer threads wait for the lock while the main thread is in unmark
\* between its read and its write.
C4_Witness ==
    /\ pc[MainThread] = "unmark_write"
    /\ \E t, u \in Watchers : t # u /\ pc[t] = "mark_acquire" /\ pc[u] = "mark_acquire"

\* C5: a TICK notification unmarks the flag exactly once and enters
\* _restart_processes exactly once if that unmark returned true, and not at
\* all, with no XML-RPC call, if it returned false.
C5_DispatchIffConsumed ==
    ProcessingTick =>
        /\ Len(unmarked) <= 1
        /\ dispatches <= 1
        /\ (unmarked = <<>> \/ unmarked = <<FALSE>>) => (dispatches = 0 /\ calls = <<>>)
        /\ pc[MainThread] \in {"ok", "wait", "crashed"} =>
              /\ Len(unmarked) = 1
              /\ dispatches = 1 <=> unmarked = <<TRUE>>

\* A tick whose unmark returned true has finished its one dispatch.
C5_Witness ==
    /\ ProcessingTick
    /\ pc[MainThread] = "ok"
    /\ unmarked = <<TRUE>>
    /\ dispatches = 1
    /\ Len(calls) >= 1

\* The dispatch of this notification could not fetch the process list.
FetchFailed ==
    \E i \in 1..Len(out) : out[i].msg = "Unable to get process info"

\* The stop and start calls made so far for this notification.
RestartCalls ==
    {i \in 1..Len(calls) : calls[i].method \in {"stopProcess", "startProcess"}}
CallsFor(method, namespec) ==
    {i \in 1..Len(calls) : calls[i] = Call(method, namespec)}

\* A fetched process is a restart candidate: any_program, or its name or its
\* namespec is one of the programs asked for.
RestartCandidate(spec) ==
    \/ any_program
    \/ spec.name \in programs
    \/ make_namespec(spec.group, spec.name) \in programs

\* C6: every notification read is acknowledged exactly once, after its
\* dispatch and before the next read, whatever the list, stop and start calls
\* did: when the processing of a notification has ended, in the next wait or
\* with the loop gone, listener.ok has run once for it.
C6_AcknowledgedExactlyOnce ==
    /\ acks <= 1
    /\ acks = 1 => pc[MainThread] = "wait"
    /\ (headers # NoHeaders /\ pc[MainThread] \in {"wait", "crashed"}) => acks = 1

\* C7: when getAllProcessInfo fails, the dispatch makes no stop or start call
\* and returns with the flag true, and the unmark of the next tick returns
\* true.
C7_FetchFailureRemarks ==
    /\ FetchFailed => RestartCalls = {}
    /\ (FetchFailed /\ pc[MainThread] = "ok") => activity_occurred = TRUE
    /\ (pc[MainThread] = "unmark_write" /\ "remark" \in pending) => res[MainThread] = TRUE

\* With no file system event at all, the tick after a failed fetch reads the
\* flag true.
C7_Witness ==
    /\ pc[MainThread] = "unmark_write"
    /\ pending = {"remark"}
    /\ res[MainThread] = TRUE

\* C8: a notification that is not a TICK is acknowledged without side
\* effects: the main thread never enters unmark or mark for it nor makes an
\* XML-RPC call, so the flag is as the observer threads left it.
C8_NonTickNoEffect ==
    ProcessingNonTick =>
        /\ pc[MainThread] \in {"check", "ok", "wait"}
        /\ unmarked = <<>>
        /\ dispatches = 0
        /\ calls = <<>>

\* A notification that is not a TICK has been acknowledged and the activity
\* recorded by an event is still pending.
C8_Witness ==
    /\ ProcessingNonTick
    /\ pc[MainThread] = "wait"
    /\ acks = 1
    /\ activity_occurred = TRUE
    /\ pending = {"event"}

\* C9: stopProcess and startProcess are only called for a fetched process that
\* is a restart candidate and whose fetched state is RUNNING.
C9_OnlyRunningCandidates ==
    \A i \in RestartCalls :
        \E j \in 1..Len(specs) :
            /\ make_namespec(specs[j].group, specs[j].name) = calls[i].namespec
            /\ RestartCandidate(specs[j])
            /\ specs[j].state = "RUNNING"

\* A dispatch restarted one process and passed over another that is RUNNING
\* and no candidate.
C9_Witness ==
    /\ pc[MainThread] = "ok"
    /\ RestartCalls # {}
    /\ \E j \in 1..Len(specs) :
          /\ ~RestartCandidate(specs[j])
          /\ specs[j].state = "RUNNING"

\* C10: in a dispatch whose fetch succeeded, every fetched process that is a
\* restart candidate and RUNNING gets exactly one stopProcess and then exactly
\* one startProcess with its namespec.
C10_EveryRunningCandidateRestarted ==
    (pc[MainThread] = "ok" /\ dispatches = 1 /\ ~FetchFailed) =>
        \A j \in 1..Len(specs) :
            (RestartCandidate(specs[j]) /\ specs[j].state = "RUNNING") =>
                LET namespec == make_namespec(specs[j].group, specs[j].name)
                    stops == CallsFor("stopProcess", namespec)
                    starts == CallsFor("startProcess", namespec)
                IN /\ Cardinality(stops) = 1
                   /\ Cardinality(starts) = 1
                   /\ \A a \in stops, b \in starts : b = a + 1

\* The programs reported as not found, and the number of such reports.
NotFoundLines ==
    {i \in 1..Len(out) : out[i].msg = "Programs specified could not be found"}
NotFoundReported == UNION {out[i].ids : i \in NotFoundLines}
\* The programs asked for that are neither the name nor the namespec of a
\* fetched process.
Unmatched ==
    {p \in programs :
        \A j \in 1..Len(specs) :
            /\ p # specs[j].name
            /\ p # make_namespec(specs[j].group, specs[j].name)}

\* C11: when a dispatch whose fetch succeeded returns, the programs reported
\* as not found are exactly the programs that are neither the name nor the
\* namespec of a fetched process, whatever the states; the report is made
\* once, as the last line of the dispatch, and no report is made earlier.
C11_NotFoundExact ==
    /\ (pc[MainThread] = "ok" /\ dispatches = 1 /\ ~FetchFailed) =>
          /\ NotFoundReported = Unmatched
          /\ Cardinality(NotFoundLines) <= 1
          /\ NotFoundLines \subseteq {Len(out)}
    /\ pc[MainThread] # "ok" => NotFoundLines = {}

\* A dispatch reported "worker" as not found while "g:web", matched by a
\* STOPPED process through its namespec, was not reported.
C11_Witness ==
    /\ pc[MainThread] = "ok"
    /\ NotFoundReported = {"worker"}
    /\ "g:web" \in programs
    /\ \E j \in 1..Len(specs) :
          /\ make_namespec(specs[j].group, specs[j].name) = "g:web"
          /\ specs[j].state = "STOPPED"
    /\ RestartCalls = {}

\* The outcome reports: restarted, not running, stop failed, start failed.
OutcomeMessages ==
    {"Restarted process", "Process is not in RUNNING state",
     "Unable to stop process", "Unable to start process"}
OutcomeLines(namespec) ==
    {i \in 1..Len(out) : out[i].msg \in OutcomeMessages /\ namespec \in out[i].ids}
Reported(msg, namespec) ==
    \E i \in 1..Len(out) : out[i].msg = msg /\ namespec \in out[i].ids
\* The dispatch took the process as a candidate: it announced its restart or
\* reported an outcome for it.
Handled(namespec) ==
    Reported("Restarting process", namespec) \/ OutcomeLines(namespec) # {}
\* The dispatch of this notification has returned after a successful fetch.
DispatchReturned ==
    pc[MainThread] = "ok" /\ dispatches = 1 /\ ~FetchFailed

\* C12: every process a dispatch took as a candidate has exactly one outcome
\* reported, and "Restarted" is not reported for a process whose stop call or
\* start call failed.
C12_OneOutcomePerCandidate ==
    DispatchReturned =>
        \A j \in 1..Len(specs) :
            LET namespec == make_namespec(specs[j].group, specs[j].name)
            IN /\ Handled(namespec) => Cardinality(OutcomeLines(namespec)) = 1
               /\ Reported("Restarted process", namespec) =>
                     /\ ~Reported("Unable to stop process", namespec)
                     /\ ~Reported("Unable to start process", namespec)

\* The watch flag of an event kind, read off the handler's fields.
MaskBit(mask, kind) ==
    \/ kind = "moved" /\ mask.moved
    \/ kind = "created" /\ mask.created
    \/ kind = "deleted" /\ mask.deleted
    \/ kind = "modified" /\ mask.modified

\* C13: under every mask, an event of kind k enters mark_activity_occurred
\* exactly when the watch flag of k is set, and that mark leaves the flag
\* true; an event of a kind that is not watched changes nothing, and no step
\* changes the mask.
C13_EventFilter ==
    /\ [](\A t \in Watchers : pc[t] = "mark_return" => activity_occurred = TRUE)
    /\ [][/\ watch' = watch
          /\ \A t \in Watchers, kind \in Kinds :
                OnEvent(t, kind) =>
                    /\ (pc'[t] = "mark_acquire") <=> MaskBit(watch, kind)
                    /\ activity_occurred' = activity_occurred]_vars

\* With only created and deleted events watched, an event has set the flag.
C13_Witness ==
    /\ watch = [moved |-> FALSE, created |-> TRUE, deleted |-> TRUE, modified |-> FALSE]
    /\ \E t \in Watchers : pc[t] = "mark_return"
    /\ activity_occurred = TRUE

\* Lines written to standard output, the channel the supervisor reads.
StdoutLines == {i \in 1..Len(out) : out[i].stream = "stdout"}

\* C14: everything on standard output is a token of the listener protocol,
\* READY or RESULT 2 OK; every dispatch result goes to standard error.
C14_StdoutProtocolOnly ==
    \A i \in StdoutLines : out[i].msg \in {"READY", "RESULT 2 OK"}

\* The conditions of a valid start: a target, existing paths, an event kind,
\* and the supervisor's endpoint in the environment.
ValidCommandLine ==
    /\ args.programs # {} \/ args.any_program
    /\ args.paths_exist
    /\ \/ args.watch.moved \/ args.watch.created \/ args.watch.deleted
       \/ args.watch.modified \/ args.watch_any
    /\ args.server_url

\* main has ended without having started the observer.
ExitedBeforeWatch == pc[MainThread] \in {"usage_error", "crashed"}

\* C15: started with a valid command line (and no --dither), main does not
\* end before the filesystem watch is installed.
C15_ValidStartReachesWait ==
    (ValidCommandLine /\ ~args.dither) => ~ExitedBeforeWatch

\* C16: a command line that is valid and configures a dither maximum is
\* accepted, so that its dispatches can be delayed.
C16_DitherConfigurable ==
    (ValidCommandLine /\ args.dither) => pc[MainThread] # "usage_error"

\* C17: a failed stop or start call does not abort the dispatch: once the
\* main thread has left a dispatch in which a stop or start call was made,
\* the whole fetched list has been examined, every process announced as
\* restarting has had both its stop and its start call, and the programs still
\* waiting have been reported as not found.
C17_FailureDoesNotAbort ==
    (pc[MainThread] \in {"ok", "crashed"} /\ RestartCalls # {}) =>
        /\ idx > Len(specs)
        /\ \A j \in 1..Len(specs) :
              LET namespec == make_namespec(specs[j].group, specs[j].name)
              IN Reported("Restarting process", namespec) =>
                    /\ CallsFor("stopProcess", namespec) # {}
                    /\ CallsFor("startProcess", namespec) # {}
        /\ waiting # {} => NotFoundLines # {}

\* Positions of a thread waiting for the lock.
AtAcquire(t) == pc[t] \in {"mark_acquire", "unmark_acquire"}

\* Positions of the main thread in which an XML-RPC call or the blocking read
\* of the next notification is the next step.
MainBlocking ==
    pc[MainThread] \in {"wait", "getinfo", "stop", "start_process"}

\* C18: the lock is held exactly between the acquire and the return of a mark
\* or an unmark. The main thread does not hold it while it waits for a
\* notification or makes an XML-RPC call, nor when it starts the re-mark of a
\* failed fetch; and a thread that waits for the lock waits for another thread
\* that is inside mark or unmark, whose remaining steps never wait.
C18_LockOnlyAroundFlag ==
    /\ \A t \in Threads : t \in lock <=> InCritical(t)
    /\ MainBlocking => lock \subseteq Watchers
    /\ pc[MainThread] = "mark_acquire" => MainThread \notin lock
    /\ \A t \in Threads :
          (AtAcquire(t) /\ lock # {}) =>
              \E h \in lock : h # t /\ InCritical(h)

\* After a failed fetch the main thread starts its re-mark while an observer
\* thread is inside mark, holding the lock.
C18_Witness ==
    /\ pc[MainThread] = "mark_acquire"
    /\ FetchFailed
    /\ \E t \in Watchers : lock = {t} /\ pc[t] = "mark_write"

\* C19: events are coalesced per tick. However many watched events completed
\* their mark since the previous unmark, the unmark of the tick returns true
\* once and takes all of them, the tick makes exactly one dispatch, and an
\* unmark that finds nothing completed since the previous one (no event, no
\* re-mark of a failed fetch) returns false and its tick makes no dispatch.
C19_CoalescedPerTick ==
    /\ pc[MainThread] = "unmark_write" =>
          /\ "event" \in pending => res[MainThread] = TRUE
          /\ pending = {} => res[MainThread] = FALSE
    /\ pc[MainThread] = "unmark_return" => (pending = {} /\ ~activity_occurred)
    /\ (ProcessingTick /\ pc[MainThread] = "ok") =>
          /\ unmarked = <<TRUE>> => dispatches = 1
          /\ unmarked = <<FALSE>> => dispatches = 0
    /\ dispatches <= 1

\* A tick is about to unmark while the second watched event since the previous
\* unmark completes: its mark found the flag already set by the first.
C19_Witness ==
    /\ ProcessingTick
    /\ pc[MainThread] = "unmark_acquire"
    /\ pending = {"event"}
    /\ \E t \in Watchers : pc[t] = "mark_return" /\ res[t] = TRUE

\* C20: a dispatch whose fetch failed leaves the flag set by its own re-mark,
\* so with no new event the unmark of the following tick returns true and
\* that tick dispatches again, for as long as the fetch fails; a dispatch whose
\* fetch succeeded leaves nothing behind, so with no new event the unmark of
\* the following tick returns false. Without a new event, a tick dispatches
\* exactly when the dispatch before it could not fetch the list.
C20_RetryUntilFetched ==
    /\ (pc[MainThread] = "ok" /\ dispatches = 1 /\ FetchFailed) =>
          ("remark" \in pending /\ activity_occurred)
    /\ (pc[MainThread] = "ok" /\ dispatches = 1 /\ ~FetchFailed) =>
          "remark" \notin pending
    /\ (pc[MainThread] = "unmark_write" /\ "event" \notin pending) =>
          (res[MainThread] <=> pending = {"remark"})
    /\ pc[MainThread] = "getinfo" => (unmarked = <<TRUE>> /\ dispatches = 0)
    /\ "event" \notin pending => (activity_occurred <=> pending = {"remark"})

\* The tick after a failed fetch, with no event in between, has read the flag
\* the re-mark left.
C20_Witness ==
    /\ ProcessingTick
    /\ pc[MainThread] = "unmark_write"
    /\ pending = {"remark"}
    /\ res[MainThread] = TRUE

====
